---- MODULE Spec2Model ----
(***************************************************************************)
(* Model of the firewall-rule pipeline of likec4-llm:                      *)
(*   src/generate_table.py  static path (model.json -> FirewallRules.md)   *)
(*   src/mcp_client.py      live path (read-view -> firewall_rules.json    *)
(*                          and FirewallRules.md)                          *)
(*                                                                         *)
(* JSON objects (Python dicts) are functions from string keys to values;   *)
(* a key that is absent from the dict is absent from the DOMAIN.  JSON     *)
(* arrays (Python lists) are sequences.  Texts of rule fields are          *)
(* sequences of one-character strings, so that strip(), concatenation and  *)
(* JSON string escaping are computed character by character.               *)
(***************************************************************************)
EXTENDS Integers, Sequences, FiniteSets, TLC

VARIABLES
    path,              \* "static" | "live" | "filter" | "parse" | "render": what is running
    pc,                \* position of the run inside its entry point
    outcome,           \* [status, error]: "running" | "ok" | "error", and the error kind
    model_file,        \* ./dist/model.json: [exists, parses, doc]
    connections_data,  \* generate_table.main: result of get_structured_model_data
    view_text,         \* mcp_client.main: text returned by fetch_simplified_view
    parsed_data,       \* mcp_client.main: result of parse_c4_view
    calls,             \* the stages the entry point has called, and the session events, in order
    llm_calls,         \* number of chat.completions.create calls issued in the run
    response,          \* parsed JSON object returned by the inference service
    markdown_table,    \* generate_table.main: result of format_json_to_markdown
    printed,           \* mcp_client.main: number of rules printed by the loop of line 131
    files,             \* output artifacts: [json, md], each a document
    writes,            \* sequence of the artifact names written, in order
    refiltered,        \* result of filtering connections_data presented again as a model
    reread             \* rules read back from the serialized document

vars == <<path, pc, outcome, model_file, connections_data, view_text, parsed_data,
          calls, llm_calls, response, markdown_table, printed, files, writes,
          refiltered, reread>>

---------------------------------------------------------------------------
(* Bounds of the model.                                                    *)

\* longest relations mapping of a model.json explored for the filter
MaxRels == 2
\* longest node list of a read-view payload explored for the parser
MaxNodes == 2
\* longest rule list explored for the renderers
MaxRules == 2
\* longest relations mapping / node list / rule list inside a whole pipeline run
PipeMaxRels == 1
PipeMaxNodes == 1
PipeMaxRules == 1

---------------------------------------------------------------------------
(* Python values.                                                          *)

\* Python's None (JSON null), as returned by dict.get for an absent key
NoneVal == "<None>"

\* the empty dict {} used as a .get default
EmptyDict == [k \in {} |-> NoneVal]

\* dict.get(k, default)
Get(d, k, default) == IF k \in DOMAIN d THEN d[k] ELSE default

\* truthiness of an id: None and "" are falsy (`if source_id and target_id`)
Truthy(v) == v # NoneVal /\ v # ""

\* all sequences over S of length at most n
SeqsUpTo(S, n) == UNION { [1..k -> S] : k \in 0..n }

\* all dicts whose keys are a subset of the domain of d, with d's values
SubDicts(d) == { [k \in K |-> d[k]] : K \in SUBSET (DOMAIN d) }

---------------------------------------------------------------------------
(* generate_table.get_structured_model_data: the static filter.            *)

\* One pass of the loop of lines 65-78 over the relations, oldest first.
RECURSIVE ScanRelations(_)
ScanRelations(relations) ==
    IF Len(relations) = 0
    THEN [involved_element_ids |-> {}, relationships |-> << >>]
    ELSE LET acc       == ScanRelations(SubSeq(relations, 1, Len(relations) - 1))
             details   == relations[Len(relations)]
             source_id == Get(Get(details, "source", EmptyDict), "model", NoneVal)
             target_id == Get(Get(details, "target", EmptyDict), "model", NoneVal)
         IN  IF Truthy(source_id) /\ Truthy(target_id)
             THEN [involved_element_ids |->
                       acc.involved_element_ids \cup {source_id, target_id},
                   relationships |->
                       Append(acc.relationships,
                              [source      |-> source_id,
                               target      |-> target_id,
                               description |-> Get(details, "title", "No description")])]
             ELSE acc

\* The dict comprehension of lines 81-90.
FilterElements(all_elements, involved_element_ids) ==
    [element_id \in { e \in DOMAIN all_elements : e \in involved_element_ids } |->
        [title       |-> Get(all_elements[element_id], "title", NoneVal),
         kind        |-> Get(all_elements[element_id], "kind", NoneVal),
         description |-> Get(all_elements[element_id], "description", NoneVal),
         technology  |-> Get(all_elements[element_id], "technology", NoneVal)]]

\* Mutant: the relationship is prepended instead of appended.
RECURSIVE ScanRelationsPrepend(_)
ScanRelationsPrepend(relations) ==
    IF Len(relations) = 0
    THEN [involved_element_ids |-> {}, relationships |-> << >>]
    ELSE LET acc       == ScanRelationsPrepend(SubSeq(relations, 1, Len(relations) - 1))
             details   == relations[Len(relations)]
             source_id == Get(Get(details, "source", EmptyDict), "model", NoneVal)
             target_id == Get(Get(details, "target", EmptyDict), "model", NoneVal)
         IN  IF Truthy(source_id) /\ Truthy(target_id)
             THEN [involved_element_ids |->
                       acc.involved_element_ids \cup {source_id, target_id},
                   relationships |->
                       << [source      |-> source_id,
                           target      |-> target_id,
                           description |-> Get(details, "title", "No description")] >>
                       \o acc.relationships]
             ELSE acc

get_structured_model_data_prepend(model) ==
    LET scan == ScanRelationsPrepend(Get(model, "relations", << >>))
    IN  [elements      |-> FilterElements(Get(model, "elements", EmptyDict),
                                          scan.involved_element_ids),
         relationships |-> scan.relationships]

\* Mutant: the loop stops at the first relation that misses an endpoint id.
RECURSIVE ScanRelationsStop(_)
ScanRelationsStop(relations) ==
    IF Len(relations) = 0
    THEN [involved_element_ids |-> {}, relationships |-> << >>, stopped |-> FALSE]
    ELSE LET acc       == ScanRelationsStop(SubSeq(relations, 1, Len(relations) - 1))
             details   == relations[Len(relations)]
             source_id == Get(Get(details, "source", EmptyDict), "model", NoneVal)
             target_id == Get(Get(details, "target", EmptyDict), "model", NoneVal)
         IN  IF acc.stopped THEN acc
             ELSE IF Truthy(source_id) /\ Truthy(target_id)
             THEN [involved_element_ids |->
                       acc.involved_element_ids \cup {source_id, target_id},
                   relationships |->
                       Append(acc.relationships,
                              [source      |-> source_id,
                               target      |-> target_id,
                               description |-> Get(details, "title", "No description")]),
                   stopped |-> FALSE]
             ELSE [acc EXCEPT !.stopped = TRUE]

get_structured_model_data_stop(model) ==
    LET scan == ScanRelationsStop(Get(model, "relations", << >>))
    IN  [elements      |-> FilterElements(Get(model, "elements", EmptyDict),
                                          scan.involved_element_ids),
         relationships |-> scan.relationships]

\* Lines 60-95 on the parsed document `model`.
get_structured_model_data(model) ==
    LET scan == ScanRelations(Get(model, "relations", << >>))
    IN  [elements      |-> FilterElements(Get(model, "elements", EmptyDict),
                                          scan.involved_element_ids),
         relationships |-> scan.relationships]

---------------------------------------------------------------------------
(* Inputs of the static filter: documents that json.load can return for    *)
(* ./dist/model.json.                                                      *)

\* element ids of the explored models
ElementIds == {"A", "B", "C"}

\* the details object of each element: "A" has every key the filter reads and
\* one it does not, "B" has a title only, "C" has no title
ElementDetails ==
    [e \in ElementIds |->
        IF e = "A"
        THEN [title |-> "Web", kind |-> "container",
              description |-> "Network ID: 10.0.0.1", technology |-> "nginx",
              tags |-> "edge"]
        ELSE IF e = "B"
        THEN [title |-> "Api"]
        ELSE [kind |-> "system", description |-> "Network ID: 10.0.0.3"]]

\* the 'elements' mappings: any subset of the ids
ElementMappings == { [e \in S |-> ElementDetails[e]] : S \in SUBSET ElementIds }

\* the nested endpoint object of a relation: {} , {"model": ""} , {"model": id}
EndpointObjects == { EmptyDict } \cup { [model |-> i] : i \in {"", "A", "B"} }

\* a relation entry: 'source', 'target' and 'title', each possibly absent
RelationEntries ==
    UNION { SubDicts([source |-> s, target |-> t, title |-> "calls (TCP 8443)"]) :
                s \in EndpointObjects, t \in EndpointObjects }

\* a parsed model document: the 'elements' mapping e and the 'relations'
\* mapping r (in insertion order), holding only the top-level keys K
ModelDocument(e, r, K) == [k \in K |-> IF k = "elements" THEN e ELSE r]

\* a graph holding nothing: the value of a variable before its stage has run
NoGraph == [elements |-> EmptyDict, relationships |-> << >>]

\* a document on disk: the value json.load returns when the file exists and parses
ModelFile(exists, parses, doc) == [exists |-> exists, parses |-> parses, doc |-> doc]

\* an output artifact that this run has not touched
Document(kind, text, rows, tokens) ==
    [kind |-> kind, text |-> text, rows |-> rows, tokens |-> tokens]
Untouched == Document("untouched", "", << >>, << >>)

\* outcome of a run
Running == [status |-> "running", error |-> ""]
Ok == [status |-> "ok", error |-> ""]
Failed(kind) == [status |-> "error", error |-> kind]

---------------------------------------------------------------------------
(* The filter applied on its own: SpecFilter.                              *)

\* A FilteredGraph presented again as a model document (nested endpoint
\* objects, the description as the title).
AsModel(g) ==
    [elements  |-> g.elements,
     relations |-> [i \in 1..Len(g.relationships) |->
                       [source |-> [model |-> g.relationships[i].source],
                        target |-> [model |-> g.relationships[i].target],
                        title  |-> g.relationships[i].description]]]

InitCommon ==
    /\ outcome = Running
    /\ connections_data = NoGraph
    /\ parsed_data = NoGraph
    /\ calls = << >>
    /\ llm_calls = 0
    /\ markdown_table = Untouched
    /\ printed = 0
    /\ files = [json |-> Untouched, md |-> Untouched]
    /\ writes = << >>
    /\ refiltered = NoGraph
    /\ reread = << >>

InitFilter ==
    /\ path = "filter"
    /\ pc = "start"
    /\ \E e \in ElementMappings, r \in SeqsUpTo(RelationEntries, MaxRels),
          K \in {{"elements", "relations"}, {"elements"}, {"relations"}} :
          model_file = ModelFile(TRUE, TRUE, ModelDocument(e, r, K))
    /\ view_text = [kind |-> "none", doc |-> EmptyDict]
    /\ response = EmptyDict
    /\ InitCommon

FilterApply ==
    /\ path = "filter" /\ pc = "start"
    /\ connections_data' = get_structured_model_data(model_file.doc)
    /\ pc' = "filtered"
    /\ UNCHANGED <<path, outcome, model_file, view_text, parsed_data, calls,
                   llm_calls, response, markdown_table, printed, files, writes,
                   refiltered, reread>>

FilterAgain ==
    /\ path = "filter" /\ pc = "filtered"
    /\ refiltered' = get_structured_model_data(AsModel(connections_data))
    /\ pc' = "refiltered"
    /\ UNCHANGED <<path, outcome, model_file, connections_data, view_text,
                   parsed_data, calls, llm_calls, response, markdown_table,
                   printed, files, writes, reread>>

NextFilter == FilterApply \/ FilterAgain

SpecFilter == InitFilter /\ [][NextFilter]_vars

\* source and target ids of a relationship list
EndpointIds(relationships) ==
    { relationships[i].source : i \in 1..Len(relationships) }
    \cup { relationships[i].target : i \in 1..Len(relationships) }

\* C1: the element keys of the filtered graph are exactly the source and target
\* ids of its relationships, so no relationship has a dangling endpoint and
\* every element is referenced.
C1_ElementKeysEqualEndpoints ==
    (path = "filter" /\ pc = "filtered") =>
        /\ DOMAIN connections_data.elements = EndpointIds(connections_data.relationships)
        /\ \A i \in 1..Len(connections_data.relationships) :
              /\ connections_data.relationships[i].source \in DOMAIN connections_data.elements
              /\ connections_data.relationships[i].target \in DOMAIN connections_data.elements

\* C5: filtering the graph the filter produced, presented again as its input,
\* returns the identical element mapping and relationship list.
C5_FilterIdempotent ==
    (path = "filter" /\ pc = "refiltered") => refiltered = connections_data

\* C5 witness: a second pass over a graph with two different relationships,
\* obtained from a model that had an element to drop and a relation to skip.
C5_Witness ==
    /\ path = "filter" /\ pc = "refiltered"
    /\ Len(connections_data.relationships) = 2
    /\ connections_data.relationships[1] # connections_data.relationships[2]
    /\ DOMAIN connections_data.elements # {}
    /\ DOMAIN connections_data.elements # DOMAIN Get(model_file.doc, "elements", EmptyDict)

\* a relation entry that has both a source id and a target id
HasBothIds(details) ==
    /\ "source" \in DOMAIN details /\ "target" \in DOMAIN details
    /\ "model" \in DOMAIN details["source"] /\ "model" \in DOMAIN details["target"]
    /\ details["source"]["model"] # "" /\ details["target"]["model"] # ""

\* the endpoint pair of a relation entry that has both ids
EndpointPair(details) == <<details["source"]["model"], details["target"]["model"]>>

\* C9: a relation missing its source or target id (accessor absent, id absent,
\* id empty) contributes no relationship and no participating id; the relations
\* that have both ids are all extracted, in order.
C9_IncompleteRelationsSkipped ==
    (path = "filter" /\ pc = "filtered") =>
        LET relations == Get(model_file.doc, "relations", << >>)
            complete  == SelectSeq(relations, HasBothIds)
            out       == connections_data.relationships
        IN  /\ Len(out) = Len(complete)
            /\ \A i \in 1..Len(out) :
                  <<out[i].source, out[i].target>> = EndpointPair(complete[i])
            /\ DOMAIN connections_data.elements \subseteq
                  { EndpointPair(complete[i])[1] : i \in 1..Len(complete) }
                  \cup { EndpointPair(complete[i])[2] : i \in 1..Len(complete) }

\* C9 witness: an incomplete relation came first and a complete one after it
\* was still extracted.
C9_Witness ==
    /\ path = "filter" /\ pc = "filtered"
    /\ LET relations == Get(model_file.doc, "relations", << >>)
       IN  /\ Len(relations) = 2
           /\ ~HasBothIds(relations[1])
           /\ HasBothIds(relations[2])
    /\ Len(connections_data.relationships) = 1
    /\ DOMAIN connections_data.elements # {}

---------------------------------------------------------------------------
(* mcp_client.parse_c4_view: the live parser.                              *)

\* The loop of lines 50-60: a later node with the same id overwrites the entry.
RECURSIVE WalkNodes(_)
WalkNodes(nodes) ==
    IF Len(nodes) = 0
    THEN EmptyDict
    ELSE LET elements   == WalkNodes(SubSeq(nodes, 1, Len(nodes) - 1))
             node       == nodes[Len(nodes)]
             elem_id    == Get(node, "id", NoneVal)
             title      == Get(node, "title", NoneVal)
             represents == Get(Get(node, "represents", EmptyDict), "element", NoneVal)
         IN  IF Truthy(elem_id) /\ Truthy(represents)
             THEN [k \in DOMAIN elements \cup {elem_id} |->
                      IF k = elem_id
                      THEN [id |-> elem_id, title |-> title,
                            kind |-> "unknown", description |-> ""]
                      ELSE elements[k]]
             ELSE elements

\* Mutant: the test of line 54 forgets the represents reference.
RECURSIVE WalkNodesIdOnly(_)
WalkNodesIdOnly(nodes) ==
    IF Len(nodes) = 0
    THEN EmptyDict
    ELSE LET elements   == WalkNodesIdOnly(SubSeq(nodes, 1, Len(nodes) - 1))
             node       == nodes[Len(nodes)]
             elem_id    == Get(node, "id", NoneVal)
             title      == Get(node, "title", NoneVal)
         IN  IF Truthy(elem_id)
             THEN [k \in DOMAIN elements \cup {elem_id} |->
                      IF k = elem_id
                      THEN [id |-> elem_id, title |-> title,
                            kind |-> "unknown", description |-> ""]
                      ELSE elements[k]]
             ELSE elements

parse_c4_view_id_only(text) ==
    IF text.kind = "invalid"
    THEN [raises |-> "", result |-> [elements |-> EmptyDict, relationships |-> << >>]]
    ELSE IF text.kind = "nonobject"
    THEN [raises |-> "AttributeError", result |-> NoGraph]
    ELSE [raises |-> "",
          result |-> [elements      |-> WalkNodesIdOnly(Get(text.doc, "nodes", << >>)),
                      relationships |-> << >>]]

\* Lines 38-63 on the text `text`: [kind, doc], where kind says what json.loads
\* does with it ("invalid": JSONDecodeError; "nonobject": a JSON value that is
\* no object, on which .get raises AttributeError; "object": the dict doc).
parse_c4_view(text) ==
    IF text.kind = "invalid"
    THEN [raises |-> "", result |-> [elements |-> EmptyDict, relationships |-> << >>]]
    ELSE IF text.kind = "nonobject"
    THEN [raises |-> "AttributeError", result |-> NoGraph]
    ELSE [raises |-> "",
          result |-> [elements      |-> WalkNodes(Get(text.doc, "nodes", << >>)),
                      relationships |-> << >>]]

---------------------------------------------------------------------------
(* Inputs of the live parser: texts that read-view can return.             *)

\* the nested 'represents' object of a node: {} , {"element": ""} , {"element": fqn}
RepresentsObjects == { EmptyDict } \cup { [element |-> e] : e \in {"", "cloud.web"} }

\* a node: 'id', 'title' and 'represents', each possibly absent
ViewNodes ==
    UNION { SubDicts([id |-> i, title |-> "Web", represents |-> r]) :
                i \in {"", "n1", "n2"}, r \in RepresentsObjects }

\* the edges a view payload may carry (never read by the parser)
ViewEdges == << [source |-> "n1", target |-> "n2", label |-> "calls (TCP 8443)"] >>

\* payload documents over the nodes N with at most n nodes
ViewDocs(N, n) ==
    { [nodes |-> ns, edges |-> ViewEdges] : ns \in SeqsUpTo(N, n) }
    \cup { [nodes |-> ns] : ns \in SeqsUpTo(N, n) }
    \cup { [edges |-> ViewEdges], EmptyDict }

\* texts: not JSON, JSON but no object, or a JSON object
ViewTexts(N, n) ==
    { [kind |-> "invalid", doc |-> EmptyDict], [kind |-> "nonobject", doc |-> EmptyDict] }
    \cup { [kind |-> "object", doc |-> d] : d \in ViewDocs(N, n) }

NoText == [kind |-> "none", doc |-> EmptyDict]

---------------------------------------------------------------------------
(* The parser applied on its own: SpecParse.                               *)

InitParse ==
    /\ path = "parse"
    /\ pc = "start"
    /\ model_file = ModelFile(FALSE, FALSE, EmptyDict)
    /\ response = EmptyDict
    /\ InitCommon
    /\ view_text \in ViewTexts(ViewNodes, MaxNodes)

ParseApply ==
    /\ path = "parse" /\ pc = "start"
    /\ LET r == parse_c4_view(view_text)
       IN  IF r.raises # ""
           THEN /\ outcome' = Failed(r.raises)
                /\ pc' = "raised"
                /\ UNCHANGED parsed_data
           ELSE /\ parsed_data' = r.result
                /\ pc' = "parsed"
                /\ UNCHANGED outcome
    /\ UNCHANGED <<path, model_file, connections_data, view_text, calls,
                   llm_calls, response, markdown_table, printed, files, writes,
                   refiltered, reread>>

NextParse == ParseApply

SpecParse == InitParse /\ [][NextParse]_vars

\* a node that has both an id and a resolved represents.element reference
Resolved(node) ==
    /\ "id" \in DOMAIN node /\ node["id"] # ""
    /\ "represents" \in DOMAIN node
    /\ "element" \in DOMAIN node["represents"]
    /\ node["represents"]["element"] # ""

\* C10: for a payload that parses as a document, the element mapping has an
\* entry for exactly the ids of the nodes that have both an id and a resolved
\* represents.element, each with kind "unknown" and an empty description, and
\* the relationship list is empty whatever the payload holds.
C10_ParsedViewElements ==
    (path = "parse" /\ view_text.kind = "object" /\ pc # "start") =>
        LET nodes == Get(view_text.doc, "nodes", << >>)
        IN  /\ pc = "parsed"
            /\ DOMAIN parsed_data.elements =
                  { nodes[i]["id"] : i \in { j \in 1..Len(nodes) : Resolved(nodes[j]) } }
            /\ \A k \in DOMAIN parsed_data.elements :
                  /\ parsed_data.elements[k].id = k
                  /\ parsed_data.elements[k].kind = "unknown"
                  /\ parsed_data.elements[k].description = ""
            /\ parsed_data.relationships = << >>

\* C10 witness: a payload with edges and two nodes, one resolved and one with
\* an id but no represents reference, parsed to one element.
C10_Witness ==
    /\ path = "parse" /\ pc = "parsed" /\ view_text.kind = "object"
    /\ "edges" \in DOMAIN view_text.doc
    /\ LET nodes == Get(view_text.doc, "nodes", << >>)
       IN  /\ Len(nodes) = 2
           /\ Resolved(nodes[1])
           /\ ~Resolved(nodes[2]) /\ "id" \in DOMAIN nodes[2] /\ nodes[2]["id"] # ""
           /\ nodes[1]["id"] # nodes[2]["id"]
    /\ Cardinality(DOMAIN parsed_data.elements) = 1

---------------------------------------------------------------------------
(* Texts: sequences of characters.                                         *)

\* str.strip(): leading and trailing whitespace removed
RECURSIVE LStrip(_)
LStrip(s) == IF Len(s) > 0 /\ Head(s) = " " THEN LStrip(Tail(s)) ELSE s

RECURSIVE RStrip(_)
RStrip(s) ==
    IF Len(s) > 0 /\ s[Len(s)] = " " THEN RStrip(SubSeq(s, 1, Len(s) - 1)) ELSE s

Strip(s) == RStrip(LStrip(s))

\* the placeholder 'N/A' of generate_table.format_json_to_markdown
NA == <<"N", "/", "A">>

\* the placeholder '' of mcp_client.save_firewall_outputs
EmptyText == << >>

---------------------------------------------------------------------------
(* generate_table.format_json_to_markdown and save_table.                  *)

\* header and separator lines of the table (lines 161-162 / 74-75)
TableHead ==
    "| Source | Port | Destination | Description |\n|--------|------|-------------|-------------|\n"

\* Mutant: the cells follow the key order of the JSON schema.
StaticRowSchemaOrder(rule) ==
    << Get(rule, "source", NA), Get(rule, "destination", NA),
       Get(rule, "port", NA), Get(rule, "description", NA) >>

\* the f-string of line 165: the four cells of one row
StaticRow(rule) ==
    << Get(rule, "source", NA), Get(rule, "port", NA),
       Get(rule, "destination", NA), Get(rule, "description", NA) >>

\* lines 154-169
format_json_to_markdown(rules_json) ==
    LET rules == Get(rules_json, "rules", << >>)
    IN  IF Len(rules) = 0
        THEN Document("text", "No rules were generated by the LLM.", << >>, << >>)
        ELSE Document("table", TableHead,
                      [i \in 1..Len(rules) |-> StaticRow(rules[i])], << >>)

\* the text main writes when the model has no relationships (line 191)
NoRelationshipsText ==
    "No rules could be generated because the C4 model does not contain any relationships."

---------------------------------------------------------------------------
(* json.dump / json.load of the rule document.                             *)

Tok(t, k, s) == [t |-> t, k |-> k, s |-> s]

\* JSON string escaping of the quote and the backslash
RECURSIVE Escape(_)
Escape(s) ==
    IF Len(s) = 0 THEN << >>
    ELSE (IF Head(s) \in {"\"", "\\"} THEN <<"\\", Head(s)>> ELSE <<Head(s)>>)
         \o Escape(Tail(s))

\* JSON string decoding: a backslash quotes the next character, a bare quote
\* ends the string
RECURSIVE Unescape(_)
Unescape(s) ==
    IF Len(s) = 0 THEN << >>
    ELSE IF Head(s) = "\\"
         THEN IF Len(s) >= 2
              THEN <<s[2]>> \o Unescape(SubSeq(s, 3, Len(s)))
              ELSE << >>
         ELSE IF Head(s) = "\"" THEN << >>
         ELSE <<Head(s)>> \o Unescape(Tail(s))

\* Mutant: the value is written without escaping.
DumpValueRaw(s) == Tok("str", "", s)

\* a string value as written by json.dump
DumpValue(s) == Tok("str", "", Escape(s))

\* the keys a rule object can hold, in the order the objects list them
RuleKeyOrder ==
    <<"source", "destination", "target", "port", "protocol", "purpose", "description">>

RECURSIVE DumpPairs(_, _)
DumpPairs(rule, keys) ==
    IF Len(keys) = 0 THEN << >>
    ELSE (IF Head(keys) \in DOMAIN rule
          THEN << Tok("key", Head(keys), << >>), DumpValue(rule[Head(keys)]) >>
          ELSE << >>)
         \o DumpPairs(rule, Tail(keys))

RECURSIVE DumpRules(_)
DumpRules(rules) ==
    IF Len(rules) = 0 THEN << >>
    ELSE << Tok("{", "", << >>) >> \o DumpPairs(Head(rules), RuleKeyOrder)
         \o << Tok("}", "", << >>) >> \o DumpRules(Tail(rules))

\* json.dump({top_key: rules}, jf, indent=2) as the token sequence of the file
JsonDump(top_key, rules) ==
    << Tok("{", "", << >>), Tok("key", top_key, << >>), Tok("[", "", << >>) >>
    \o DumpRules(rules)
    \o << Tok("]", "", << >>), Tok("}", "", << >>) >>

RECURSIVE LoadRules(_, _, _, _, _)
LoadRules(tokens, i, cur, key, acc) ==
    IF i > Len(tokens) THEN acc
    ELSE LET tok == tokens[i]
         IN  CASE tok.t = "{"   -> LoadRules(tokens, i + 1, EmptyDict, "", acc)
               [] tok.t = "key" -> LoadRules(tokens, i + 1, cur, tok.k, acc)
               [] tok.t = "str" ->
                      LoadRules(tokens, i + 1,
                                [k \in DOMAIN cur \cup {key} |->
                                    IF k = key THEN Unescape(tok.s) ELSE cur[k]],
                                "", acc)
               [] tok.t = "}"   -> LoadRules(tokens, i + 1, EmptyDict, "", Append(acc, cur))
               [] OTHER         -> acc

\* json.load of a file written by JsonDump: the dict {top_key: rules}
JsonLoad(tokens) ==
    [k \in {tokens[2].k} |-> LoadRules(tokens, 4, EmptyDict, "", << >>)]

---------------------------------------------------------------------------
(* mcp_client.save_firewall_outputs.                                       *)

\* lines 78-82: the four cells of one row
LiveRow(rule) ==
    LET src  == Get(rule, "source", EmptyText)
        dest == Get(rule, "target", EmptyText)
        desc == Get(rule, "purpose", EmptyText)
        port == Strip(Get(rule, "protocol", EmptyText) \o <<" ">>
                      \o Get(rule, "port", EmptyText))
    IN  <<src, port, dest, desc>>

\* lines 67-69: dist/firewall_rules.json
JsonDocument(firewall_rules) ==
    Document("json", "", << >>, JsonDump("firewall_rules", firewall_rules))

\* Mutant: a rule whose row was already emitted is not emitted again.
MarkdownDocumentDedup(firewall_rules) ==
    Document("table", TableHead,
             LET keep == { i \in 1..Len(firewall_rules) :
                             \A j \in 1..(i - 1) : firewall_rules[j] # firewall_rules[i] }
                 F[i \in 0..Len(firewall_rules)] ==
                     IF i = 0 THEN << >>
                     ELSE IF i \in keep THEN Append(F[i - 1], LiveRow(firewall_rules[i]))
                     ELSE F[i - 1]
             IN  F[Len(firewall_rules)],
             << >>)

\* lines 73-86: dist/FirewallRules.md
MarkdownDocument(firewall_rules) ==
    Document("table", TableHead,
             [i \in 1..Len(firewall_rules) |-> LiveRow(firewall_rules[i])], << >>)

\* lines 65-87 when both writes succeed
save_firewall_outputs(firewall_rules) ==
    [json |-> JsonDocument(firewall_rules), md |-> MarkdownDocument(firewall_rules)]

---------------------------------------------------------------------------
(* Rule sequences an inference service can return.                         *)

\* the text of field k in the two explored spellings: plain, and with blanks,
\* quotes, backslashes and empty texts
FieldValue(v, k) ==
    IF v = 1
    THEN CASE k = "source"      -> <<"a">>
           [] k = "destination" -> <<"b">>
           [] k = "target"      -> <<"b">>
           [] k = "protocol"    -> <<"T">>
           [] k = "port"        -> <<"4">>
           [] OTHER             -> <<"d">>
    ELSE CASE k = "source"      -> << >>
           [] k = "destination" -> <<"\\", "b">>
           [] k = "target"      -> <<"\\">>
           [] k = "protocol"    -> <<" ", "T">>
           [] k = "port"        -> <<"4", " ">>
           [] OTHER             -> <<"\"", "d">>

\* rule objects over the keys K: any subset of the keys, either spelling
RulesOver(K, V) == UNION { SubDicts([k \in K |-> FieldValue(v, k)]) : v \in V }

StaticKeys == {"source", "destination", "port", "description"}
LiveKeys == {"source", "target", "port", "protocol", "purpose"}

---------------------------------------------------------------------------
(* The renderers applied on their own: SpecRender.                         *)

InitRender ==
    /\ path = "render"
    /\ pc = "start"
    /\ model_file = ModelFile(FALSE, FALSE, EmptyDict)
    /\ view_text = NoText
    /\ InitCommon
    /\ response \in
          { [rules |-> rs] : rs \in SeqsUpTo(RulesOver(StaticKeys, {1, 2}), MaxRules) }
          \cup { [firewall_rules |-> rs] :
                     rs \in SeqsUpTo(RulesOver(LiveKeys, {1, 2}), MaxRules) }

RenderStatic ==
    /\ path = "render" /\ pc = "start" /\ "rules" \in DOMAIN response
    /\ markdown_table' = format_json_to_markdown(response)
    /\ pc' = "formatted"
    /\ UNCHANGED <<path, outcome, model_file, connections_data, view_text,
                   parsed_data, calls, llm_calls, response, printed, files,
                   writes, refiltered, reread>>

RenderLive ==
    /\ path = "render" /\ pc = "start" /\ "firewall_rules" \in DOMAIN response
    /\ files' = save_firewall_outputs(response["firewall_rules"])
    /\ writes' = <<"json", "md">>
    /\ pc' = "saved"
    /\ UNCHANGED <<path, outcome, model_file, connections_data, view_text,
                   parsed_data, calls, llm_calls, response, markdown_table,
                   printed, refiltered, reread>>

ReadBack ==
    /\ path = "render" /\ pc = "saved"
    /\ reread' = JsonLoad(files.json.tokens)["firewall_rules"]
    /\ pc' = "reread"
    /\ UNCHANGED <<path, outcome, model_file, connections_data, view_text,
                   parsed_data, calls, llm_calls, response, markdown_table,
                   printed, files, writes, refiltered>>

NextRender == RenderStatic \/ RenderLive \/ ReadBack

SpecRender == InitRender /\ [][NextRender]_vars

\* s without its leading and trailing blanks, by position
Trimmed(s) ==
    LET solid == { i \in 1..Len(s) : s[i] # " " }
    IN  IF solid = {} THEN << >>
        ELSE SubSeq(s, CHOOSE i \in solid : \A j \in solid : i <= j,
                       CHOOSE i \in solid : \A j \in solid : j <= i)

\* the field behind each column (Source, Port, Destination, Description)
StaticColumns == <<"source", "port", "destination", "description">>
LiveColumns == <<"source", "port", "target", "purpose">>

\* the rule sequence and the rows of the table rendered from it
RenderedRules ==
    IF pc = "formatted" THEN response["rules"] ELSE response["firewall_rules"]
RenderedRows ==
    IF pc = "formatted" THEN markdown_table.rows ELSE files.md.rows

\* the text of a field, or the empty text when the rule lacks it
TextOf(rule, k) == IF k \in DOMAIN rule THEN rule[k] ELSE << >>

\* the live Port cell: protocol and port, each empty when absent, joined by a
\* blank, with the blanks around the result removed
LivePortCell(rule) ==
    Trimmed(TextOf(rule, "protocol") \o <<" ">> \o TextOf(rule, "port"))

\* C6 as stated: one data row per rule, in order, cells in the order Source,
\* Port, Destination, Description; a cell whose field is absent holds the
\* placeholder of the path ('N/A' static, '' live), a cell whose field is
\* present holds it (the live Port cell is left open when port is present).
C6_AbsentFieldGivesPlaceholder ==
    (path = "render" /\ pc \in {"formatted", "saved"}) =>
        LET rules   == RenderedRules
            rows    == RenderedRows
            static  == pc = "formatted"
            columns == IF static THEN StaticColumns ELSE LiveColumns
            blank   == IF static THEN <<"N", "/", "A">> ELSE << >>
        IN  /\ Len(rows) = Len(rules)
            /\ \A i \in 1..Len(rows) :
                  /\ Len(rows[i]) = 4
                  /\ \A c \in 1..4 :
                        IF columns[c] \notin DOMAIN rules[i]
                        THEN rows[i][c] = blank
                        ELSE (~static /\ c = 2) \/ rows[i][c] = rules[i][columns[c]]

\* C6 amended: as C6, except that the live Port cell holds the rule's protocol
\* and port (each replaced by the empty text when absent) joined by one blank
\* and stripped, so it is the empty placeholder only when nothing but blanks
\* remains.
C6_RowsAndPlaceholders ==
    (path = "render" /\ pc \in {"formatted", "saved"}) =>
        LET rules   == RenderedRules
            rows    == RenderedRows
            static  == pc = "formatted"
            columns == IF static THEN StaticColumns ELSE LiveColumns
            blank   == IF static THEN <<"N", "/", "A">> ELSE << >>
        IN  /\ Len(rows) = Len(rules)
            /\ \A i \in 1..Len(rows) :
                  /\ Len(rows[i]) = 4
                  /\ \A c \in 1..4 :
                        IF ~static /\ c = 2
                        THEN rows[i][c] = LivePortCell(rules[i])
                        ELSE IF columns[c] \notin DOMAIN rules[i]
                        THEN rows[i][c] = blank
                        ELSE rows[i][c] = rules[i][columns[c]]

\* C6 witness: the live table of two rules, the first with a protocol and no
\* port, the second with neither and no source.
C6_Witness ==
    /\ path = "render" /\ pc = "saved"
    /\ Len(response["firewall_rules"]) = 2
    /\ LET r1 == response["firewall_rules"][1]
           r2 == response["firewall_rules"][2]
       IN  /\ "protocol" \in DOMAIN r1 /\ "port" \notin DOMAIN r1
           /\ DOMAIN r2 = {"target", "purpose"}
    /\ Len(files.md.rows) = 2
    /\ files.md.rows[1][2] # << >>
    /\ files.md.rows[2][2] = << >>

\* C7: the serialized document and the table hold the rules the inference
\* service returned, in the same order: as many rules and rows as the
\* sequence, and the i-th row is the row of the i-th rule of the document
\* (live); the i-th row is the row of the i-th returned rule (static).
C7_RenderingsAgree ==
    /\ (path = "render" /\ pc = "reread") =>
          /\ Len(reread) = Len(response["firewall_rules"])
          /\ Len(files.md.rows) = Len(reread)
          /\ \A i \in 1..Len(reread) :
                /\ DOMAIN reread[i] = DOMAIN response["firewall_rules"][i]
                /\ files.md.rows[i] =
                      << TextOf(reread[i], "source"), LivePortCell(reread[i]),
                         TextOf(reread[i], "target"), TextOf(reread[i], "purpose") >>
    /\ (path = "render" /\ pc = "formatted" /\ markdown_table.kind = "table") =>
          /\ Len(markdown_table.rows) = Len(response["rules"])
          /\ \A i \in 1..Len(markdown_table.rows) :
                \A c \in 1..4 :
                    StaticColumns[c] \in DOMAIN response["rules"][i] =>
                        markdown_table.rows[i][c] = response["rules"][i][StaticColumns[c]]

\* C7 witness: two equal rules were returned, and both renderings hold two.
C7_Witness ==
    /\ path = "render" /\ pc = "reread"
    /\ Len(response["firewall_rules"]) = 2
    /\ response["firewall_rules"][1] = response["firewall_rules"][2]
    /\ DOMAIN response["firewall_rules"][1] = LiveKeys
    /\ Len(reread) = 2 /\ Len(files.md.rows) = 2

\* C8: the rule sequence read back from the serialized document is the
\* sequence that was written: length, order and every field value.
C8_SerializedRoundTrip ==
    (path = "render" /\ pc = "reread") => reread = response["firewall_rules"]

\* C8 witness: two different rules, one holding a quote and a backslash, were
\* written under the top-level key and read back.
C8_Witness ==
    /\ path = "render" /\ pc = "reread"
    /\ files.json.tokens[2] = Tok("key", "firewall_rules", << >>)
    /\ Len(reread) = 2
    /\ reread[1] # reread[2]
    /\ \E i \in 1..2 :
          /\ {"target", "purpose"} \subseteq DOMAIN reread[i]
          /\ reread[i]["target"] = <<"\\">>
          /\ reread[i]["purpose"] = <<"\"", "d">>

---------------------------------------------------------------------------
(* Inputs of a whole pipeline run.                                         *)

\* relation entries met in a run: every endpoint form, the title present
PipeRelationEntries == { e \in RelationEntries : "title" \in DOMAIN e }

\* ./dist/model.json as the export leaves it: absent, not JSON, or a document
PipeModelFiles ==
    { ModelFile(FALSE, FALSE, EmptyDict), ModelFile(TRUE, FALSE, EmptyDict) }
    \cup { ModelFile(TRUE, TRUE,
                     [elements  |-> [e \in ElementIds |-> ElementDetails[e]],
                      relations |-> r]) :
               r \in SeqsUpTo(PipeRelationEntries, PipeMaxRels) }

\* nodes met in a run: titled, id absent or "n1", represents absent or resolved
PipeViewNodes ==
    { n \in ViewNodes :
          /\ "title" \in DOMAIN n
          /\ "id" \in DOMAIN n => n["id"] = "n1"
          /\ "represents" \in DOMAIN n => n["represents"] = [element |-> "cloud.web"] }

\* JSON objects the inference service can return: a rule list under either of
\* the two top-level keys in use
Responses(K) ==
    LET lists == SeqsUpTo(RulesOver(K, {1}), PipeMaxRules)
    IN  { [rules |-> rs] : rs \in lists } \cup { [firewall_rules |-> rs] : rs \in lists }

---------------------------------------------------------------------------
(* generate_table.main: the static entry point.                            *)

Last(s) == s[Len(s)]

\* the except clause of lines 201-202: the error is printed and main returns
StaticAbort(stage, kind) ==
    /\ outcome' = Failed(kind)
    /\ pc' = "done"
    /\ calls' = Append(calls, stage)

\* line 185: configure_llm raises ValueError without OPENAI_API_KEY
ConfigureLlm ==
    /\ path = "static" /\ pc = "configure_llm"
    /\ \E api_key \in BOOLEAN :
          IF api_key
          THEN /\ pc' = "export_model_to_json"
               /\ calls' = Append(calls, "configure_llm")
               /\ UNCHANGED outcome
          ELSE StaticAbort("configure_llm", "ValueError")
    /\ UNCHANGED <<path, model_file, connections_data, view_text, parsed_data,
                   llm_calls, response, markdown_table, printed, files, writes,
                   refiltered, reread>>

\* line 186: export_model_to_json (lines 26-46)
ExportModelToJson ==
    /\ path = "static" /\ pc = "export_model_to_json"
    /\ \E package_json \in BOOLEAN, npm_ok \in BOOLEAN, exported \in PipeModelFiles :
          IF ~package_json
          THEN StaticAbort("export_model_to_json", "FileNotFoundError") /\ UNCHANGED model_file
          ELSE IF ~npm_ok
          THEN StaticAbort("export_model_to_json", "CalledProcessError") /\ UNCHANGED model_file
          ELSE /\ model_file' = exported
               /\ pc' = "get_structured_model_data"
               /\ calls' = Append(calls, "export_model_to_json")
               /\ UNCHANGED outcome
    /\ UNCHANGED <<path, connections_data, view_text, parsed_data, llm_calls,
                   response, markdown_table, printed, files, writes, refiltered,
                   reread>>

\* line 187: get_structured_model_data (lines 48-95)
GetStructuredModelData ==
    /\ path = "static" /\ pc = "get_structured_model_data"
    /\ IF ~model_file.exists
       THEN StaticAbort("get_structured_model_data", "FileNotFoundError")
            /\ UNCHANGED connections_data
       ELSE IF ~model_file.parses
       THEN StaticAbort("get_structured_model_data", "JSONDecodeError")
            /\ UNCHANGED connections_data
       ELSE /\ connections_data' = get_structured_model_data(model_file.doc)
            /\ pc' = "relationships?"
            /\ calls' = Append(calls, "get_structured_model_data")
            /\ UNCHANGED outcome
    /\ UNCHANGED <<path, model_file, view_text, parsed_data, llm_calls, response,
                   markdown_table, printed, files, writes, refiltered, reread>>

\* save_table (lines 171-180) of the text `document`, then the end of main
SaveTableAndReturn(document) ==
    \E io_ok \in BOOLEAN :
        IF io_ok
        THEN /\ files' = [files EXCEPT !.md = document]
             /\ writes' = Append(writes, "md")
             /\ outcome' = Ok
             /\ pc' = "done"
             /\ calls' = Append(calls, "save_table")
        ELSE /\ StaticAbort("save_table", "IOError")
             /\ UNCHANGED <<files, writes>>

\* lines 189-192: no relationships, the fixed text is saved and main returns
SaveNoRelationships ==
    /\ path = "static" /\ pc = "relationships?"
    /\ Len(connections_data.relationships) = 0
    /\ SaveTableAndReturn(Document("text", NoRelationshipsText, << >>, << >>))
    /\ UNCHANGED <<path, model_file, connections_data, view_text, parsed_data,
                   llm_calls, response, markdown_table, printed, refiltered, reread>>

\* Mutant: a failed request is issued again instead of being re-raised.
CallOpenaiLlmForJsonRetry ==
    /\ path = "static" /\ pc = "relationships?"
    /\ Len(connections_data.relationships) # 0
    /\ llm_calls' = llm_calls + 1
    /\ \/ /\ UNCHANGED <<pc, outcome, response>>
          /\ calls' = Append(calls, "call_openai_llm_for_json")
       \/ /\ response' \in Responses(StaticKeys)
          /\ pc' = "format_json_to_markdown"
          /\ calls' = Append(calls, "call_openai_llm_for_json")
          /\ UNCHANGED outcome
    /\ UNCHANGED <<path, model_file, connections_data, view_text, parsed_data,
                   markdown_table, printed, files, writes, refiltered, reread>>

\* line 194: call_openai_llm_for_json (lines 97-152): one request; any
\* exception of the request or of json.loads is re-raised
CallOpenaiLlmForJson ==
    /\ path = "static" /\ pc = "relationships?"
    /\ Len(connections_data.relationships) # 0
    /\ llm_calls' = llm_calls + 1
    /\ \/ /\ StaticAbort("call_openai_llm_for_json", "OpenAIError")
          /\ UNCHANGED response
       \/ /\ response' \in Responses(StaticKeys)
          /\ pc' = "format_json_to_markdown"
          /\ calls' = Append(calls, "call_openai_llm_for_json")
          /\ UNCHANGED outcome
    /\ UNCHANGED <<path, model_file, connections_data, view_text, parsed_data,
                   markdown_table, printed, files, writes, refiltered, reread>>

\* line 195
FormatJsonToMarkdown ==
    /\ path = "static" /\ pc = "format_json_to_markdown"
    /\ markdown_table' = format_json_to_markdown(response)
    /\ pc' = "save_table"
    /\ calls' = Append(calls, "format_json_to_markdown")
    /\ UNCHANGED <<path, outcome, model_file, connections_data, view_text,
                   parsed_data, llm_calls, response, printed, files, writes,
                   refiltered, reread>>

\* lines 196-200
SaveTable ==
    /\ path = "static" /\ pc = "save_table"
    /\ SaveTableAndReturn(markdown_table)
    /\ UNCHANGED <<path, model_file, connections_data, view_text, parsed_data,
                   llm_calls, response, markdown_table, printed, refiltered, reread>>

---------------------------------------------------------------------------
(* mcp_client.main: the live entry point.  Nothing catches an exception:   *)
(* the process ends with the traceback.                                    *)

LiveCrash(kind) ==
    /\ outcome' = Failed(kind)
    /\ pc' = "crashed"

\* line 29: entering sse_client opens the connection to localhost:PORT
SseConnect ==
    /\ path = "live" /\ pc = "fetch_simplified_view"
    /\ calls' = Append(calls, "sse_client.enter")
    /\ \E connected \in BOOLEAN :
          IF connected
          THEN pc' = "ClientSession" /\ UNCHANGED outcome
          ELSE LiveCrash("ConnectError")
    /\ UNCHANGED <<path, model_file, connections_data, view_text, parsed_data,
                   llm_calls, response, markdown_table, printed, files, writes,
                   refiltered, reread>>

\* line 30: entering ClientSession (the code calls no session.initialize())
SessionEnter ==
    /\ path = "live" /\ pc = "ClientSession"
    /\ calls' = Append(calls, "ClientSession.enter")
    /\ pc' = "call_tool"
    /\ UNCHANGED <<path, outcome, model_file, connections_data, view_text,
                   parsed_data, llm_calls, response, markdown_table, printed,
                   files, writes, refiltered, reread>>

\* Mutant: a raising request ends the run without leaving the two blocks.
CallToolNoTeardown ==
    /\ path = "live" /\ pc = "call_tool"
    /\ calls' = Append(calls, "call_tool read-view")
    /\ \/ /\ LiveCrash("ToolError")
          /\ UNCHANGED view_text
       \/ /\ view_text' \in ViewTexts(PipeViewNodes, PipeMaxNodes)
          /\ pc' = "ClientSession.exit"
          /\ UNCHANGED outcome
    /\ UNCHANGED <<path, model_file, connections_data, parsed_data, llm_calls,
                   response, markdown_table, printed, files, writes, refiltered,
                   reread>>

\* lines 31-35: the read-view request is awaited; it returns the text or raises
CallTool ==
    /\ path = "live" /\ pc = "call_tool"
    /\ calls' = Append(calls, "call_tool read-view")
    /\ pc' = "ClientSession.exit"
    /\ \/ /\ outcome' = [status |-> "raising", error |-> "ToolError"]
          /\ UNCHANGED view_text
       \/ /\ view_text' \in ViewTexts(PipeViewNodes, PipeMaxNodes)
          /\ UNCHANGED outcome
    /\ UNCHANGED <<path, model_file, connections_data, parsed_data, llm_calls,
                   response, markdown_table, printed, files, writes, refiltered,
                   reread>>

\* line 30: leaving the ClientSession block, on return and on exception
SessionExit ==
    /\ path = "live" /\ pc = "ClientSession.exit"
    /\ calls' = Append(calls, "ClientSession.exit")
    /\ pc' = "sse_client.exit"
    /\ UNCHANGED <<path, outcome, model_file, connections_data, view_text,
                   parsed_data, llm_calls, response, markdown_table, printed,
                   files, writes, refiltered, reread>>

\* line 29: leaving the sse_client block; asyncio.run then returns or raises
SseExit ==
    /\ path = "live" /\ pc = "sse_client.exit"
    /\ calls' = Append(calls, "sse_client.exit")
    /\ IF outcome.status = "raising"
       THEN LiveCrash(outcome.error)
       ELSE pc' = "parse_c4_view" /\ UNCHANGED outcome
    /\ UNCHANGED <<path, model_file, connections_data, view_text, parsed_data,
                   llm_calls, response, markdown_table, printed, files, writes,
                   refiltered, reread>>

\* line 125
ParseC4View ==
    /\ path = "live" /\ pc = "parse_c4_view"
    /\ calls' = Append(calls, "parse_c4_view")
    /\ LET r == parse_c4_view(view_text)
       IN  IF r.raises # ""
           THEN LiveCrash(r.raises) /\ UNCHANGED parsed_data
           ELSE /\ parsed_data' = r.result
                /\ pc' = "generate_firewall_json"
                /\ UNCHANGED outcome
    /\ UNCHANGED <<path, model_file, connections_data, view_text, llm_calls,
                   response, markdown_table, printed, files, writes, refiltered,
                   reread>>

\* line 128: generate_firewall_json (lines 90-118): one request, whatever the
\* parsed graph holds
GenerateFirewallJson ==
    /\ path = "live" /\ pc = "generate_firewall_json"
    /\ calls' = Append(calls, "generate_firewall_json")
    /\ llm_calls' = llm_calls + 1
    /\ \/ /\ LiveCrash("OpenAIError")
          /\ UNCHANGED response
       \/ /\ response' \in Responses(LiveKeys)
          /\ pc' = "print"
          /\ UNCHANGED outcome
    /\ UNCHANGED <<path, model_file, connections_data, view_text, parsed_data,
                   markdown_table, printed, files, writes, refiltered, reread>>

\* the rules of the response that main iterates and saves (lines 131, 135)
ResponseRules == Get(response, "firewall_rules", << >>)

\* Mutant: the loop reads the keys with .get, so no rule raises.
PrintRulesLenient ==
    /\ path = "live" /\ pc = "print"
    /\ printed' = Len(ResponseRules)
    /\ pc' = "save_json"
    /\ UNCHANGED <<path, outcome, model_file, connections_data, view_text,
                   parsed_data, calls, llm_calls, response, markdown_table, files,
                   writes, refiltered, reread>>

\* Mutant: the serialized document is written before the rules are printed.
PrintRulesAfterSaving ==
    /\ path = "live" /\ pc = "print"
    /\ LET rules  == ResponseRules
           broken == { i \in 1..Len(rules) : ~(LiveKeys \subseteq DOMAIN rules[i]) }
       IN  /\ files' = [files EXCEPT !.json = JsonDocument(rules)]
           /\ writes' = Append(writes, "json")
           /\ IF broken # {}
              THEN /\ printed' = (CHOOSE i \in broken : \A j \in broken : i <= j) - 1
                   /\ LiveCrash("KeyError")
              ELSE /\ printed' = Len(rules)
                   /\ pc' = "save_md"
                   /\ UNCHANGED outcome
    /\ UNCHANGED <<path, model_file, connections_data, view_text, parsed_data,
                   calls, llm_calls, response, markdown_table, refiltered, reread>>

\* lines 130-132: every rule is indexed by the five keys; the first rule that
\* lacks one raises KeyError
PrintRules ==
    /\ path = "live" /\ pc = "print"
    /\ LET rules  == ResponseRules
           broken == { i \in 1..Len(rules) : ~(LiveKeys \subseteq DOMAIN rules[i]) }
       IN  IF broken # {}
           THEN /\ printed' = (CHOOSE i \in broken : \A j \in broken : i <= j) - 1
                /\ LiveCrash("KeyError")
           ELSE /\ printed' = Len(rules)
                /\ pc' = "save_json"
                /\ UNCHANGED outcome
    /\ UNCHANGED <<path, model_file, connections_data, view_text, parsed_data,
                   calls, llm_calls, response, markdown_table, files, writes,
                   refiltered, reread>>

\* line 135, lines 67-70: the serialized document is opened and written
SaveJson ==
    /\ path = "live" /\ pc = "save_json"
    /\ calls' = Append(calls, "save_firewall_outputs")
    /\ \E io_ok \in BOOLEAN :
          IF io_ok
          THEN /\ files' = [files EXCEPT !.json = JsonDocument(ResponseRules)]
               /\ writes' = Append(writes, "json")
               /\ pc' = "save_md"
               /\ UNCHANGED outcome
          ELSE /\ LiveCrash("IOError")
               /\ UNCHANGED <<files, writes>>
    /\ UNCHANGED <<path, model_file, connections_data, view_text, parsed_data,
                   llm_calls, response, markdown_table, printed, refiltered, reread>>

\* Mutant: the table is written to the path of the serialized document.
SaveMarkdownToJsonPath ==
    /\ path = "live" /\ pc = "save_md"
    /\ \E io_ok \in BOOLEAN :
          IF io_ok
          THEN /\ files' = [files EXCEPT !.json = MarkdownDocument(ResponseRules)]
               /\ writes' = Append(writes, "json")
               /\ outcome' = Ok
               /\ pc' = "done"
          ELSE /\ LiveCrash("IOError")
               /\ UNCHANGED <<files, writes>>
    /\ UNCHANGED <<path, model_file, connections_data, view_text, parsed_data,
                   calls, llm_calls, response, markdown_table, printed, refiltered,
                   reread>>

\* lines 72-87: the table is built, opened and written; main returns
SaveMarkdown ==
    /\ path = "live" /\ pc = "save_md"
    /\ \E io_ok \in BOOLEAN :
          IF io_ok
          THEN /\ files' = [files EXCEPT !.md = MarkdownDocument(ResponseRules)]
               /\ writes' = Append(writes, "md")
               /\ outcome' = Ok
               /\ pc' = "done"
          ELSE /\ LiveCrash("IOError")
               /\ UNCHANGED <<files, writes>>
    /\ UNCHANGED <<path, model_file, connections_data, view_text, parsed_data,
                   calls, llm_calls, response, markdown_table, printed, refiltered,
                   reread>>

---------------------------------------------------------------------------
(* One run of either entry point: Spec.                                    *)

Init ==
    /\ path \in {"static", "live"}
    /\ pc = IF path = "static" THEN "configure_llm" ELSE "fetch_simplified_view"
    /\ model_file = ModelFile(FALSE, FALSE, EmptyDict)
    /\ view_text = NoText
    /\ response = EmptyDict
    /\ InitCommon

Next ==
    \/ ConfigureLlm
    \/ ExportModelToJson
    \/ GetStructuredModelData
    \/ SaveNoRelationships
    \/ CallOpenaiLlmForJson
    \/ FormatJsonToMarkdown
    \/ SaveTable
    \/ SseConnect
    \/ SessionEnter
    \/ CallTool
    \/ SessionExit
    \/ SseExit
    \/ ParseC4View
    \/ GenerateFirewallJson
    \/ PrintRules
    \/ SaveJson
    \/ SaveMarkdown

Spec == Init /\ [][Next]_vars

\* the run is over: main returned or the process ended with a traceback
Ended == pc \in {"done", "crashed"}

\* `stage` was called and returned
StageReturned(stage) ==
    \E i \in 1..Len(calls) :
        /\ calls[i] = stage
        /\ i < Len(calls) \/ outcome.status # "error"

\* the graph the run extracted, once the extraction has returned
GraphExtracted ==
    IF path = "static" THEN StageReturned("get_structured_model_data")
    ELSE StageReturned("parse_c4_view")
ExtractedGraph == IF path = "static" THEN connections_data ELSE parsed_data

\* the response of the inference service, once its call has returned
ResponseReceived ==
    IF path = "static" THEN StageReturned("call_openai_llm_for_json")
    ELSE StageReturned("generate_firewall_json")
ExpectedKey == IF path = "static" THEN "rules" ELSE "firewall_rules"

\* C2: in a run whose extracted graph has no relationships the inference
\* service is never called, and the run ends with the fixed 'no rules could be
\* generated' text written as its output (unless the write itself fails).
C2_EmptyGraphShortCircuits ==
    (path \in {"static", "live"} /\ GraphExtracted
        /\ Len(ExtractedGraph.relationships) = 0) =>
        /\ llm_calls = 0
        /\ (Ended /\ outcome.error # "IOError") =>
              /\ writes # << >>
              /\ files.md = Document("text", NoRelationshipsText, << >>, << >>)

\* C3: when the response lacks the expected top-level key, nothing is
\* written during the run and the run ends in an error.
C3_MissingTopLevelKeyRejected ==
    (path \in {"static", "live"} /\ ResponseReceived
        /\ ExpectedKey \notin DOMAIN response) =>
        /\ writes = << >>
        /\ files = [json |-> Untouched, md |-> Untouched]
        /\ Ended => outcome.status = "error"

\* C4: a run in which a stage before persistence raised (configuration,
\* missing file, export failure, malformed model or payload, query or
\* inference-service error, a rule without its keys) has ended, ran no later
\* stage, and wrote or modified no artifact: no state has one artifact
\* written and the run ended in such an error.
C4_FailedRunWritesNothing ==
    (path \in {"static", "live"} /\ outcome.status = "error"
        /\ outcome.error # "IOError") =>
        /\ Ended
        /\ ~ENABLED Next
        /\ writes = << >>
        /\ files = [json |-> Untouched, md |-> Untouched]
        /\ \A i \in 1..Len(calls) :
              calls[i] \notin {"save_table", "save_firewall_outputs",
                               "format_json_to_markdown"}

\* C4 witness: the inference service failed on a graph with a relationship
\* (static), the run is over and nothing was written.
C4_Witness ==
    /\ path = "static" /\ pc = "done"
    /\ outcome = Failed("OpenAIError")
    /\ llm_calls = 1
    /\ Len(connections_data.relationships) = 1
    /\ writes = << >>

\* the empty graph parse_c4_view returns on a parse failure (line 45)
EmptyGraph == [elements |-> EmptyDict, relationships |-> << >>]

\* C11: when the text cannot be parsed as the expected document (it is no
\* JSON, or it is JSON but no object), parse_c4_view returns the empty graph
\* and does not raise.
C11_UnparseableGivesEmptyGraph ==
    (path = "parse" /\ view_text.kind \in {"invalid", "nonobject"} /\ pc # "start") =>
        /\ pc = "parsed"
        /\ outcome.status # "error"
        /\ parsed_data = EmptyGraph

\* how often `stage` appears in the calls of the run
TimesCalled(stage) == Cardinality({ i \in 1..Len(calls) : calls[i] = stage })

\* C12: the inference service is called at most once in a run; when the call
\* fails the run is over: no second call, no further stage, nothing written.
C12_AtMostOneInferenceCall ==
    (path \in {"static", "live"}) =>
        /\ llm_calls <= 1
        /\ TimesCalled("call_openai_llm_for_json") + TimesCalled("generate_firewall_json")
              = llm_calls
        /\ outcome.error = "OpenAIError" =>
              /\ outcome.status = "error"
              /\ Ended
              /\ llm_calls = 1
              /\ ~ENABLED Next
              /\ Last(calls) \in {"call_openai_llm_for_json", "generate_firewall_json"}
              /\ writes = << >>

\* C12 witness: the one call of a static run failed and the run is over.
C12_Witness ==
    /\ path = "static" /\ Ended
    /\ outcome = Failed("OpenAIError")
    /\ llm_calls = 1
    /\ Last(calls) = "call_openai_llm_for_json"
    /\ Len(connections_data.relationships) > 0

SchemaKeys == IF path = "static" THEN StaticKeys ELSE LiveKeys
ViolatesSchema(r) ==
    \/ ExpectedKey \notin DOMAIN r
    \/ \E i \in 1..Len(r[ExpectedKey]) : ~(SchemaKeys \subseteq DOMAIN r[ExpectedKey][i])

\* C14: a response whose top-level key is missing or in which a rule lacks a
\* field is rejected by the inference client: its call raises, so the response
\* is never returned to main and never rendered.
C14_ClientValidatesSchema ==
    (path \in {"static", "live"} /\ ResponseReceived) =>
        ~ViolatesSchema(response)

\* the events of a live run, in the order of the code
LiveOrder ==
    << "sse_client.enter", "ClientSession.enter", "call_tool read-view",
       "ClientSession.exit", "sse_client.exit", "parse_c4_view",
       "generate_firewall_json", "save_firewall_outputs" >>

\* s is an initial part of t
IsPrefix(s, t) == Len(s) <= Len(t) /\ SubSeq(t, 1, Len(s)) = s

C16_SaveOnlyCompleteRules ==
    (path = "live") =>
        LET rules  == ResponseRules
            broken == { i \in 1..Len(rules) : ~(LiveKeys \subseteq DOMAIN rules[i]) }
        IN  /\ (TimesCalled("save_firewall_outputs") > 0 \/ writes # << >>) =>
                  broken = {}
            /\ (ResponseReceived /\ broken # {} /\ pc # "print") =>
                  /\ outcome = Failed("KeyError")
                  /\ pc = "crashed"
                  /\ \A i \in broken : printed < i
                  /\ writes = << >>
                  /\ files = [json |-> Untouched, md |-> Untouched]
            /\ files.md # Untouched =>
                  /\ Len(files.md.rows) = Len(rules)
                  /\ \A i \in 1..Len(rules) :
                        /\ files.md.rows[i][1] = rules[i]["source"]
                        /\ files.md.rows[i][2] =
                              Trimmed(rules[i]["protocol"] \o <<" ">> \o rules[i]["port"])
                        /\ files.md.rows[i][3] = rules[i]["target"]
                        /\ files.md.rows[i][4] = rules[i]["purpose"]

\* C16 witness: a returned rule lacked 'port'; the run ended with KeyError
\* before save_firewall_outputs and wrote nothing.
C16_Witness ==
    /\ path = "live" /\ pc = "crashed"
    /\ outcome = Failed("KeyError")
    /\ Len(ResponseRules) >= 1
    /\ "port" \notin DOMAIN ResponseRules[1]
    /\ "source" \in DOMAIN ResponseRules[1]
    /\ TimesCalled("save_firewall_outputs") = 0
    /\ writes = << >>

====
